---- MODULE Spec2Model ----
(***************************************************************************)
(* Model of the smart-data-analyser cleaning engine (src/data_engine.py)   *)
(* and of the engine copy embedded in the GUI shell                        *)
(* (src/smart_data_analyser.py).                                           *)
(*                                                                         *)
(* Text is a sequence of characters; a character is a one-token string.    *)
(* Tokens that are not a single printable ASCII character:                 *)
(*   "sp" space, "tab" tab, "hy" hyphen, "bang" '!', "us" underscore,      *)
(*   "eacute" the letter U+00E9, "Eacute" the letter U+00C9.               *)
(* A dataset (pandas DataFrame) is a record                                *)
(*   [columns |-> sequence of labels,                                      *)
(*    rows    |-> sequence of [idx |-> index label, cells |-> sequence]]   *)
(* A cell is [k |-> "nan"], [k |-> "str", s |-> text] or                   *)
(* [k |-> "num", n |-> numerator, d |-> denominator] (a reduced fraction). *)
(***************************************************************************)
EXTENDS Integers, Sequences, FiniteSets, TLC

VARIABLES
    pc,          \* position of the run: "start", then the stage reached
    impl,        \* "engine" (data_engine.py) or "gui" (smart_data_analyser.py)
    df,          \* the caller's input dataset
    rules,       \* column_rules: function from normalized names to rule records
    out,         \* the dataset the operation returned (None before, or on a raise)
    out2,        \* the dataset a second standardize_column_names returned
    report,      \* the cleaning report of clean_dataset
    kept,        \* df.index of the cleaned frame just before reset_index
    datasets,    \* self.datasets of the GUI shell: the loaded datasets, in order
    paths,       \* self.paths of the GUI shell: the number of selected files
    err,         \* "" or the exception the operation raised
    key_col,     \* the key label handed to perform_merge
    join_type,   \* the join type handed to perform_merge
    message,     \* the message box the handler showed last (None before)
    current_df,  \* self.current_df of the GUI shell
    preview_df,  \* self.preview_df
    aggregated_df,  \* self.aggregated_df
    current_name,   \* self.current_name: the name of the current dataset (0: None)
    history,     \* self.history: the labels of the history list
    undo_stack,  \* self.undo_stack: the dataset snapshots
    issues,      \* the list sql_safety_report returned
    returned     \* the DataFrame object clean_dataset returned ("" before)

\* the arguments and the message box of a merge export
merge_vars == <<key_col, join_type, message>>

\* the single-dataset state of the GUI shell
shell_vars ==
    <<current_df, preview_df, aggregated_df, current_name, history, undo_stack>>

vars ==
    <<pc, impl, df, rules, out, out2, report, kept, datasets, paths, err,
      merge_vars, shell_vars, issues, returned>>

None == [k |-> "none"]

\* no merge export was asked for
NoMerge == key_col = None /\ join_type = "" /\ message = None

\* SmartDataAnalyser.__init__: the data state and the history of a new shell
NoShell ==
    /\ current_df = None
    /\ preview_df = None
    /\ aggregated_df = None
    /\ current_name = 0
    /\ history = <<>>
    /\ undo_stack = <<>>

\* ------------------------------------------------------------------ bounds

\* Labels of up to MaxLabelLen characters over LabelAlphabet are enumerated.
MaxLabelLen == 3

\* Datasets of one column have up to MaxRows rows, those of two columns one less.
MaxRows == 3

\* ---------------------------------------------------------------- characters

UpperLetters == <<"A", "B", "D", "O", "R", "E", "X", "Y", "N", "U", "Eacute">>
LowerLetters == <<"a", "b", "d", "o", "r", "e", "x", "y", "n", "u", "eacute">>
OtherLower == {"c", "f", "i", "k", "l", "m", "p", "s", "t", "w"}
Digits == {"0", "1", "2"}

\* str.isspace: the characters str.strip() removes and \s matches
IsSpace(c) == c \in {"sp", "tab"}

IsUpper(c) == \E i \in DOMAIN UpperLetters : UpperLetters[i] = c
IsLower(c) == (\E i \in DOMAIN LowerLetters : LowerLetters[i] = c) \/ c \in OtherLower
IsLetter(c) == IsUpper(c) \/ IsLower(c)

\* str.lower() on one character
LowerChar(c) ==
    IF IsUpper(c)
    THEN LowerLetters[CHOOSE i \in DOMAIN UpperLetters : UpperLetters[i] = c]
    ELSE c

\* str.upper() on one character (only letters with a modelled capital change)
UpperChar(c) ==
    IF \E i \in DOMAIN LowerLetters : LowerLetters[i] = c
    THEN UpperLetters[CHOOSE i \in DOMAIN LowerLetters : LowerLetters[i] = c]
    ELSE c

\* Python 3 re: \w on str is Unicode-aware: letters of any script, digits, "_"
IsWordChar(c) == IsLetter(c) \/ c \in Digits \/ c = "us"

\* the ASCII class [A-Za-z0-9_]
IsAsciiWordChar(c) == IsWordChar(c) /\ c \notin {"eacute", "Eacute"}

\* ------------------------------------------------------------ str operations

SetMin(S) == CHOOSE x \in S : \A y \in S : x <= y
SetMax(S) == CHOOSE x \in S : \A y \in S : y <= x

\* str.strip()
Strip(s) ==
    LET keep == {i \in DOMAIN s : ~IsSpace(s[i])}
    IN  IF keep = {} THEN <<>> ELSE SubSeq(s, SetMin(keep), SetMax(keep))

\* str.lower()
LowerStr(s) == [i \in DOMAIN s |-> LowerChar(s[i])]

\* str.upper()
UpperStr(s) == [i \in DOMAIN s |-> UpperChar(s[i])]

\* str.replace(old, new) for one-character old and new
Replace(s, old, new) == [i \in DOMAIN s |-> IF s[i] = old THEN new ELSE s[i]]

\* re.sub(r"[^\w_]", "", s)
StripNonWord(s) == SelectSeq(s, IsWordChar)

\* needle in haystack (Python's substring test)
Contains(hay, needle) ==
    \E i \in 0..(Len(hay) - Len(needle)) :
        SubSeq(hay, i + 1, i + Len(needle)) = needle

\* ------------------------------------------------- column name standardization

SQL_RESERVED ==
    { <<"s","e","l","e","c","t">>, <<"f","r","o","m">>, <<"w","h","e","r","e">>,
      <<"g","r","o","u","p">>, <<"o","r","d","e","r">>, <<"t","a","b","l","e">>,
      <<"i","n","s","e","r","t">>, <<"u","p","d","a","t","e">>,
      <<"d","e","l","e","t","e">>, <<"j","o","i","n">>, <<"l","i","m","i","t">> }

ColSuffix == <<"us", "c", "o", "l">>

\* the loop body without the reserved-word suffix
EngineName_NoSuffix(col) ==
    StripNonWord(Replace(Replace(LowerStr(Strip(col)), "sp", "us"), "hy", "us"))

\* the reserved-word test done on the start of the name instead of the name
EngineName_SuffixOnPrefix(col) ==
    LET clean == StripNonWord(
                     Replace(Replace(LowerStr(Strip(col)), "sp", "us"), "hy", "us"))
    IN  IF \E w \in SQL_RESERVED :
              Len(clean) >= Len(w) /\ SubSeq(clean, 1, Len(w)) = w
        THEN clean \o ColSuffix ELSE clean

\* data_engine.standardize_column_names, the loop body for one label
EngineName(col) ==
    LET clean == StripNonWord(
                     Replace(Replace(LowerStr(Strip(col)), "sp", "us"), "hy", "us"))
    IN  IF clean \in SQL_RESERVED THEN clean \o ColSuffix ELSE clean

\* smart_data_analyser.standardize_column_names, the loop body for one label
GuiName(col) ==
    LET c == StripNonWord(Replace(LowerStr(Strip(col)), "sp", "us"))
    IN  IF c \in SQL_RESERVED THEN c \o ColSuffix ELSE c

NameOf(variant, col) == IF variant = "engine" THEN EngineName(col) ELSE GuiName(col)

\* standardize_column_names(df): df.columns = cols; the rows are untouched
standardize_column_names(variant, d) ==
    [d EXCEPT !.columns = [i \in DOMAIN d.columns |-> NameOf(variant, d.columns[i])]]

\* ------------------------------------------------------------------- cells

NaN == [k |-> "nan"]
Str(s) == [k |-> "str", s |-> s]

RECURSIVE Gcd(_, _)
Gcd(a, b) == IF b = 0 THEN a ELSE Gcd(b, a % b)

Abs(x) == IF x < 0 THEN -x ELSE x

\* the number n/d (d > 0), kept as a reduced fraction
Num(n, d) ==
    LET g == Gcd(Abs(n), d)
    IN  [k |-> "num", n |-> n \div g, d |-> d \div g]

IsNa(c) == c.k = "nan"
IsStr(c) == c.k = "str"
IsNum(c) == c.k = "num"

\* a column of a dataset, as the sequence of its cells (df[col] for position j)
Column(d, j) == [i \in DOMAIN d.rows |-> d.rows[i].cells[j]]

\* df[col] = series, for position j
SetColumn(d, j, series) ==
    [d EXCEPT !.rows =
        [i \in DOMAIN d.rows |-> [d.rows[i] EXCEPT !.cells[j] = series[i]]]]

\* Series.dtype == "object": some cell holds a Python object (here: a str)
IsObjectDtype(series) == \E i \in DOMAIN series : IsStr(series[i])

\* Series.isna().sum()
NullCount(series) == Cardinality({i \in DOMAIN series : IsNa(series[i])})

\* ------------------------------------------------------- numeric parsing

DigitValue(c) == CASE c = "0" -> 0 [] c = "1" -> 1 [] c = "2" -> 2

RECURSIVE DigitsValue(_)
DigitsValue(s) ==
    IF s = <<>> THEN 0
    ELSE 10 * DigitsValue(SubSeq(s, 1, Len(s) - 1)) + DigitValue(s[Len(s)])

\* pandas lib.maybe_convert_numeric on one cell: [ok, v].  An empty string
\* converts to NaN (convert_empty); the float parser skips surrounding
\* whitespace and accepts the word nan in any case; anything else fails.
ParseStripped(t) ==
    IF t # <<>> /\ \A i \in DOMAIN t : t[i] \in Digits
    THEN [ok |-> TRUE, v |-> Num(DigitsValue(t), 1)]
    ELSE IF LowerStr(t) = <<"n", "a", "n">>
    THEN [ok |-> TRUE, v |-> NaN]
    ELSE [ok |-> FALSE, v |-> NaN]

ParseNumeric(c) ==
    IF ~IsStr(c) THEN [ok |-> TRUE, v |-> c]
    ELSE IF c.s = <<>> THEN [ok |-> TRUE, v |-> NaN]
    ELSE ParseStripped(Strip(c.s))

\* pd.to_numeric(series, errors="coerce")
ToNumericCoerce(series) == [i \in DOMAIN series |-> ParseNumeric(series[i]).v]

\* pd.to_numeric(series, errors="ignore"): all cells parse, or the input back
AllParsedOr(parsed, series) ==
    IF \A i \in DOMAIN parsed : parsed[i].ok
    THEN [i \in DOMAIN parsed |-> parsed[i].v]
    ELSE series

ToNumericIgnore(series) ==
    AllParsedOr([i \in DOMAIN series |-> ParseNumeric(series[i])], series)

\* Series.astype(str) on one cell of the modelled inputs (str cells and NaN)
AsStr(c) ==
    CASE IsStr(c) -> c.s
      [] IsNa(c)  -> <<"n", "a", "n">>

AsTypeStr(series) == [i \in DOMAIN series |-> Str(AsStr(series[i]))]

\* a cell that does not parse is kept as it is
enforce_type_KeepUnparsed(series, target) ==
    IF target = "numeric"
    THEN [i \in DOMAIN series |->
             IF ParseNumeric(series[i]).ok THEN ParseNumeric(series[i]).v
             ELSE series[i]]
    ELSE AsTypeStr(series)

\* enforce_type(series, target); the "date" target is not among the targets
\* the model draws
enforce_type(series, target) ==
    IF target = "numeric" THEN ToNumericCoerce(series) ELSE AsTypeStr(series)

\* ------------------------------------------------------------ text cleaning

\* str.replace(r"\s+", " ", regex=True)
RECURSIVE CollapseSpaces(_)
CollapseSpaces(s) ==
    IF s = <<>> THEN <<>>
    ELSE LET rest == CollapseSpaces(Tail(s))
         IN  IF IsSpace(Head(s))
             THEN IF Len(s) > 1 /\ IsSpace(s[2]) THEN rest ELSE <<"sp">> \o rest
             ELSE <<Head(s)>> \o rest

\* str.title(): a letter is capitalised unless it follows a letter
TitleStr(s) ==
    [i \in DOMAIN s |->
        IF ~IsLetter(s[i]) THEN s[i]
        ELSE IF i > 1 /\ IsLetter(s[i - 1]) THEN LowerChar(s[i])
        ELSE UpperChar(s[i])]

ApplyCase(s, case) ==
    IF case = "upper" THEN UpperStr(s)
    ELSE IF case = "lower" THEN LowerStr(s)
    ELSE TitleStr(s)

\* clean_text(series, case)
clean_text(series, case) ==
    [i \in DOMAIN series |->
        Str(ApplyCase(CollapseSpaces(Strip(AsStr(series[i]))), case))]

\* ------------------------------------------------------------ null handling

\* code point order of the characters (Python compares str by code point)
CodeOrder ==
    <<"tab", "sp", "bang", "hy", "0", "1", "2",
      "A", "B", "D", "E", "N", "O", "R", "U", "X", "Y", "us",
      "a", "b", "c", "d", "e", "f", "i", "k", "l", "m", "n", "o", "p", "r",
      "s", "t", "u", "w", "x", "y", "Eacute", "eacute">>

CodePoint(c) == CHOOSE i \in DOMAIN CodeOrder : CodeOrder[i] = c

RECURSIVE StrLess(_, _)
StrLess(a, b) ==
    IF b = <<>> THEN FALSE
    ELSE IF a = <<>> THEN TRUE
    ELSE IF Head(a) # Head(b) THEN CodePoint(Head(a)) < CodePoint(Head(b))
    ELSE StrLess(Tail(a), Tail(b))

\* the order Series.mode() and Series.median() sort present values by
CellLess(a, b) ==
    IF IsNum(a) /\ IsNum(b) THEN a.n * b.d < b.n * a.d
    ELSE IF IsStr(a) /\ IsStr(b) THEN StrLess(a.s, b.s)
    ELSE IsNum(a) /\ IsStr(b)

\* the cells of a series that are not missing, in order
Present(series) == SelectSeq(series, LAMBDA c : ~IsNa(c))

\* a + b and (a + b) / k on fractions
FracAdd(a, b) == Num(a.n * b.d + b.n * a.d, a.d * b.d)
FracDiv(a, k) == Num(a.n, a.d * k)

RECURSIVE SumCells(_)
SumCells(s) == IF s = <<>> THEN Num(0, 1) ELSE FracAdd(Head(s), SumCells(Tail(s)))

HasText(p) == \E i \in DOMAIN p : IsStr(p[i])

\* Series.mean() over the present cells p: [ok, v]; NaN when nothing is
\* present, a TypeError on text
MeanOf(p) ==
    IF HasText(p) THEN [ok |-> FALSE, v |-> NaN]
    ELSE IF p = <<>> THEN [ok |-> TRUE, v |-> NaN]
    ELSE [ok |-> TRUE, v |-> FracDiv(SumCells(p), Len(p))]

Mean(series) == MeanOf(Present(series))

\* the position of the cell of rank r (1 = smallest) among the cells of p
Ranked(p, r) ==
    CHOOSE i \in DOMAIN p :
        /\ Cardinality({j \in DOMAIN p : CellLess(p[j], p[i])}) < r
        /\ Cardinality({j \in DOMAIN p : ~CellLess(p[i], p[j])}) >= r

\* Series.median() over the present cells p: [ok, v]
MedianOf(p) ==
    IF HasText(p) THEN [ok |-> FALSE, v |-> NaN]
    ELSE IF p = <<>> THEN [ok |-> TRUE, v |-> NaN]
    ELSE [ok |-> TRUE,
          v |-> FracDiv(FracAdd(p[Ranked(p, (Len(p) + 1) \div 2)],
                                p[Ranked(p, (Len(p) \div 2) + 1)]), 2)]

Median(series) == MedianOf(Present(series))

\* how often the cell at position i occurs in p
Occurrences(p, i) == Cardinality({j \in DOMAIN p : p[j] = p[i]})

\* the positions of the most frequent cells of p
MostFrequent(p) ==
    {i \in DOMAIN p : \A j \in DOMAIN p : Occurrences(p, j) <= Occurrences(p, i)}

SmallestAt(p, top) == CHOOSE i \in top : \A j \in top : ~CellLess(p[j], p[i])

\* Series.mode().iloc[0] over the present cells p: [ok, v]; the smallest of
\* the most frequent values, an IndexError when nothing is present
ModeOf(p) ==
    IF p = <<>> THEN [ok |-> FALSE, v |-> NaN]
    ELSE [ok |-> TRUE, v |-> p[SmallestAt(p, MostFrequent(p))]]

ModeFirst(series) == ModeOf(Present(series))

\* Series.fillna(value)
FillNa(series, value) ==
    [i \in DOMAIN series |-> IF IsNa(series[i]) THEN value ELSE series[i]]

\* Series.fillna(method="ffill")
FFill(series) ==
    [i \in DOMAIN series |->
        LET before == {j \in 1..i : ~IsNa(series[j])}
        IN  IF before = {} THEN series[i] ELSE series[SetMax(before)]]

Unknown == Str(<<"U", "n", "k", "n", "o", "w", "n">>)

\* handle_nulls(series, strategy): [ok, exc, series]

\* return series.fillna(stat), or the exception computing stat raised
FillWith(series, stat, exc) ==
    IF stat.ok THEN [ok |-> TRUE, exc |-> "", series |-> FillNa(series, stat.v)]
    ELSE [ok |-> FALSE, exc |-> exc, series |-> series]

Value(v) == [ok |-> TRUE, v |-> v]

handle_nulls(series, strategy) ==
    CASE strategy = "zero" -> FillWith(series, Value(Num(0, 1)), "")
      [] strategy = "mean" -> FillWith(series, Mean(series), "TypeError")
      [] strategy = "median" -> FillWith(series, Median(series), "TypeError")
      [] strategy = "mode" -> FillWith(series, ModeFirst(series), "IndexError")
      [] strategy = "ffill" -> [ok |-> TRUE, exc |-> "", series |-> FFill(series)]
      [] strategy = "keep" -> [ok |-> TRUE, exc |-> "", series |-> series]
      [] OTHER -> FillWith(series, Value(Unknown), "")

\* ------------------------------------------------------- duplicate handling

\* DataFrame.dropna(how="all")
DropAllMissingRows(d) ==
    [d EXCEPT !.rows =
        SelectSeq(d.rows,
                  LAMBDA r : \E j \in DOMAIN r.cells : ~IsNa(r.cells[j]))]

\* DataFrame.drop_duplicates(keep="first") over position i of a row sequence
RECURSIVE DropDupRows(_, _)
DropDupRows(rows, seen) ==
    IF rows = <<>> THEN <<>>
    ELSE IF Head(rows).cells \in seen THEN DropDupRows(Tail(rows), seen)
    ELSE <<Head(rows)>> \o DropDupRows(Tail(rows), seen \cup {Head(rows).cells})

\* every row kept
remove_duplicates_Keep(d) == d

\* remove_duplicates(df) with the defaults subset=None, keep="first"
remove_duplicates(d) == [d EXCEPT !.rows = DropDupRows(d.rows, {})]

\* DataFrame.reset_index(drop=True)
ResetIndex(d) ==
    [d EXCEPT !.rows = [i \in DOMAIN d.rows |-> [d.rows[i] EXCEPT !.idx = i - 1]]]

\* ------------------------------------------------------ cleaning pipeline

\* The DataFrame objects of one call of clean_dataset: "caller" is the object
\* the caller handed in, "copy" the one df.copy() makes, "deduplicated" the
\* one drop_duplicates makes.  Statements with inplace=True, df.columns = ...
\* and df[col] = ... write to the object the local name df is bound to.

\* the caller's object itself in place of a copy
FrameCopy_Same(obj) == obj

\* DataFrame.copy() (deep=True): a new object holding the same data
FrameCopy(obj) == "copy"

\* dict.get(key, default) on a rule record
Get(r, key, default) == IF key \in DOMAIN r THEN r[key] ELSE default

\* column_rules.get(col, {}) if column_rules else {}
RuleFor(column_rules, col) ==
    IF col \in DOMAIN column_rules THEN column_rules[col] ELSE <<>>

\* the skip flag never read
Skips_Never(r) == FALSE

\* rules.get("skip_cleaning")
Skips(r) == Get(r, "skip_cleaning", FALSE)

\* "email" not in col and "url" not in col
TextCleanable(col) ==
    /\ ~Contains(col, <<"e", "m", "a", "i", "l">>)
    /\ ~Contains(col, <<"u", "r", "l">>)

\* df[col] selects a DataFrame, not a Series, when the label is not unique
IsDuplicated(d, col) ==
    Cardinality({j \in DOMAIN d.columns : d.columns[j] = col}) > 1

\* Type enforcement (an explicit rule type), or auto-detect
Coerced(series, target) ==
    IF target # "" THEN enforce_type(series, target) ELSE ToNumericIgnore(series)

\* Text cleaning of a column that is still of dtype object
TextCleaned(series, col, r) ==
    IF IsObjectDtype(series) /\ TextCleanable(col)
    THEN clean_text(series, Get(r, "case", "title"))
    ELSE series

\* Null handling: [ok, exc, series, nulls_before]
NullsHandled(series, nulls_before, r) ==
    IF nulls_before > 0
    THEN [nulls_before |-> nulls_before]
             @@ handle_nulls(series, Get(r, "null_strategy", "unknown"))
    ELSE [ok |-> TRUE, exc |-> "", series |-> series, nulls_before |-> 0]

\* the assignments of one turn of the loop: df[col], report["types_converted"],
\* report["nulls_fixed"][col]
Assigned(st, j, col, target, h) ==
    IF ~h.ok THEN [st EXCEPT !.exc = h.exc]
    ELSE [d |-> SetColumn(st.d, j, h.series),
          report |-> [st.report EXCEPT
              !.types_converted = IF target # "" THEN Append(@, col) ELSE @,
              !.nulls_fixed =
                  IF h.nulls_before > 0 THEN (col :> h.nulls_before) @@ @ ELSE @],
          exc |-> ""]

\* the stages of one turn after type enforcement: text cleaning, then nulls
TextThenNulls(st, j, col, r, typed) ==
    Assigned(st, j, col, Get(r, "type", ""),
             LET texted == TextCleaned(typed, col, r)
             IN  NullsHandled(texted, NullCount(texted), r))

\* one turn with the nulls resolved on the raw column, before type enforcement
CleanNamed_NullsFirst(st, j, col, r) ==
    IF Skips(r) THEN st
    ELSE IF IsDuplicated(st.d, col) THEN [st EXCEPT !.exc = "TypeError"]
    ELSE LET raw == Column(st.d, j)
             h == NullsHandled(raw, NullCount(raw), r)
         IN  Assigned(st, j, col, Get(r, "type", ""),
                      [h EXCEPT !.series =
                          LET typed == Coerced(h.series, Get(r, "type", ""))
                          IN  IF \E i \in DOMAIN typed : IsNum(typed[i]) THEN typed
                              ELSE TextCleaned(typed, col, r)])

\* One turn of the loop "for col in df.columns" for the column at position j,
\* named col, with the rule r of that name.
\* st = [d |-> dataset, report |-> report, exc |-> "" or the exception raised]
CleanNamed(st, j, col, r) ==
    IF Skips(r) THEN st
    ELSE IF IsDuplicated(st.d, col)
    THEN \* pd.to_numeric rejects a DataFrame; DataFrame.astype(str) works
         \* and the read of df[col].dtype raises
         [st EXCEPT !.exc = IF Get(r, "type", "") \in {"", "numeric"}
                            THEN "TypeError" ELSE "AttributeError"]
    ELSE TextThenNulls(st, j, col, r, Coerced(Column(st.d, j), Get(r, "type", "")))

CleanColumn(st, j, column_rules) ==
    IF st.exc # "" THEN st
    ELSE CleanNamed(st, j, st.d.columns[j], RuleFor(column_rules, st.d.columns[j]))

\* the loop "for col in df.columns", positions j..Len(columns)
RECURSIVE CleanColumns(_, _, _)
CleanColumns(st, j, column_rules) ==
    IF j > Len(st.d.columns) THEN st
    ELSE CleanColumns(CleanColumn(st, j, column_rules), j + 1, column_rules)

\* Duplicate removal and the closing report fields
Deduplicated(st, deduped) ==
    [exc |-> "",
     d |-> deduped,
     local |-> st.d,
     report |-> [st.report EXCEPT
         !.duplicates_removed = Len(st.d.rows) - Len(deduped.rows),
         !.rows_after = Len(deduped.rows)]]

Finished(st) ==
    IF st.exc # "" THEN [exc |-> st.exc, d |-> None, local |-> st.d, report |-> None]
    ELSE Deduplicated(st, remove_duplicates(st.d))

\* data_engine.clean_dataset(df, column_rules):
\* [exc, d (the frame before reset_index), local, report]; local is the data
\* of the object df.copy() made as the in-place statements left it
clean_dataset(d, column_rules) ==
    Finished(CleanColumns(
        [d |-> DropAllMissingRows(standardize_column_names("engine", d)),
         report |-> [rows_before |-> Len(d.rows),
                     nulls_fixed |-> <<>>,
                     types_converted |-> <<>>,
                     duplicates_removed |-> 0,
                     rows_after |-> 0],
         exc |-> ""],
        1, column_rules))

\* smart_data_analyser.clean_dataset(df): the frame before reset_index
gui_clean_dataset(d) ==
    remove_duplicates(DropAllMissingRows(standardize_column_names("gui", d)))

\* ------------------------------------------------------------------ inputs

LabelAlphabet == {"a", "B", "1", "us", "sp", "tab", "hy", "bang", "eacute"}

ShortLabels == UNION {[1..n -> LabelAlphabet] : n \in 0..MaxLabelLen}

L_order == <<"o", "r", "d", "e", "r">>
L_ORDER_padded == <<"sp", "O", "R", "D", "E", "R", "sp">>
L_Order_Date == <<"O", "r", "d", "e", "r", "sp", "D", "a", "t", "e">>
L_order_col == <<"o", "r", "d", "e", "r", "us", "c", "o", "l">>
L_or_tab_der == <<"o", "r", "tab", "d", "e", "r">>
L_or_hy_der == <<"o", "r", "hy", "d", "e", "r">>
L_order_bang == <<"o", "r", "d", "e", "r", "bang">>
L_A_sp_B == <<"A", "sp", "B">>
L_A_hy_B == <<"A", "hy", "B">>
L_a_sp_b == <<"a", "sp", "b">>
L_amt == <<"a", "m", "t">>
L_name == <<"n", "a", "m", "e">>
L_email == <<"e", "m", "a", "i", "l">>

NamedLabels ==
    {L_order, L_ORDER_padded, L_Order_Date, L_order_col, L_or_tab_der,
     L_or_hy_der, L_order_bang, L_A_sp_B, L_A_hy_B, L_a_sp_b}

\* the column label lists of the name-normalizer runs: one label of any kind,
\* or two distinct named labels (a file reader never yields equal raw labels)
NameColumns ==
    {<<l>> : l \in ShortLabels \cup NamedLabels}
        \cup {p \in NamedLabels \X NamedLabels : p[1] # p[2]}

\* cells of the column under a rule, and of the column beside it
S_10 == Str(<<"1", "0">>)
S_20 == Str(<<"2", "0">>)
S_empty == Str(<<>>)
S_x == Str(<<"x">>)
S_sp_X == Str(<<"sp", "X">>)
S_a_b == Str(<<"a", "sp", "sp", "b">>)

MainCells == {S_10, S_20, S_empty, S_x, S_sp_X, NaN}
SideCells == {S_a_b, NaN}

CleanColumnLists ==
    {<<L_amt>>, <<L_amt, L_name>>, <<L_email, L_name>>, <<L_order, L_name>>,
     <<L_A_sp_B, L_A_hy_B>>}

RowBound(cols) == IF Len(cols) = 1 THEN MaxRows ELSE MaxRows - 1

\* the rows of a dataset with these columns: the index is 0..n-1
RowsFor(cols) ==
    UNION {
        {[i \in 1..n |-> [idx |-> i - 1, cells |-> cs[i]]] :
            cs \in [1..n -> IF Len(cols) = 1
                           THEN {<<m>> : m \in MainCells}
                           ELSE {<<m, s>> : m \in MainCells, s \in SideCells}]}
        : n \in 0..RowBound(cols)}

Strategies == {"zero", "mean", "median", "mode", "ffill", "keep"}

RulePool ==
    {t @@ n : t \in {<<>>, [type |-> "numeric"], [type |-> "text"]},
              n \in {<<>>} \cup {[null_strategy |-> s] : s \in Strategies}}
    \cup {[type |-> "text", case |-> "upper"], [case |-> "lower"]}
    \cup {[skip_cleaning |-> TRUE],
          [skip_cleaning |-> TRUE, type |-> "numeric", null_strategy |-> "mean"],
          [skip_cleaning |-> TRUE, type |-> "text", case |-> "upper",
           null_strategy |-> "zero"]}

\* no rule map, or one entry, keyed by the normalized name of the first column
RuleMapsFor(cols) == {<<>>} \cup {(EngineName(cols[1]) :> r) : r \in RulePool}

\* ------------------------------------------------- the cleaning orchestrator

Init ==
    /\ pc = "start"
    /\ impl = "engine"
    /\ \E cols \in CleanColumnLists :
          /\ \E rows \in RowsFor(cols) : df = [columns |-> cols, rows |-> rows]
          /\ rules \in RuleMapsFor(cols)
    /\ out = None
    /\ out2 = None
    /\ report = None
    /\ kept = <<>>
    /\ datasets = <<>>
    /\ paths = 0
    /\ err = ""
    /\ NoMerge
    /\ NoShell
    /\ issues = <<>>
    /\ returned = ""

\* df, report = clean_dataset(df, column_rules); df is the caller's object
\* after the call
CleanDataset ==
    /\ pc = "start"
    /\ impl = "engine"
    /\ \E res \in {clean_dataset(df, rules)} :
           /\ err' = res.exc
           /\ df' = IF FrameCopy("caller") = "caller" THEN res.local ELSE df
           /\ returned' = IF res.exc = "" THEN "deduplicated" ELSE ""
           /\ out' = IF res.exc = "" THEN ResetIndex(res.d) ELSE None
           /\ kept' = IF res.exc = ""
                      THEN [i \in DOMAIN res.d.rows |-> res.d.rows[i].idx]
                      ELSE <<>>
           /\ report' = res.report
    /\ pc' = "cleaned"
    /\ UNCHANGED <<impl, rules, out2, datasets, paths,
                   merge_vars, shell_vars, issues>>

Next == CleanDataset

Spec == Init /\ [][Next]_vars

\* ------------------------------------------- the caller's dataset across a call

CopyRules ==
    {[type |-> "numeric", null_strategy |-> "mean"],
     [type |-> "text", case |-> "upper", null_strategy |-> "zero"]}

InitCopy ==
    /\ pc = "start"
    /\ impl \in {"engine", "gui"}
    /\ \E cols \in CleanColumnLists :
          /\ \E rows \in RowsFor(cols) : df = [columns |-> cols, rows |-> rows]
          /\ rules \in {<<>>} \cup (IF impl = "engine"
                                   THEN {(EngineName(cols[1]) :> r) : r \in CopyRules}
                                   ELSE {})
    /\ out = None
    /\ out2 = None
    /\ report = None
    /\ kept = <<>>
    /\ datasets = <<>>
    /\ paths = 0
    /\ err = ""
    /\ NoMerge
    /\ NoShell
    /\ issues = <<>>
    /\ returned = ""

\* df = clean_dataset(df) of smart_data_analyser.py: every statement after
\* df.copy() works in place on the copy, which is the object returned
GuiCleanDataset ==
    /\ pc = "start"
    /\ impl = "gui"
    /\ \E res \in {ResetIndex(gui_clean_dataset(df))} :
           /\ out' = res
           /\ df' = IF FrameCopy("caller") = "caller" THEN res ELSE df
    /\ returned' = FrameCopy("caller")
    /\ pc' = "cleaned"
    /\ UNCHANGED <<impl, rules, out2, report, kept, datasets, paths, err,
                   merge_vars, shell_vars, issues>>

NextCopy == CleanDataset \/ GuiCleanDataset

SpecCopy == InitCopy /\ [][NextCopy]_vars

\* ------------------------------------------------------ the name normalizer

InitNames ==
    /\ pc = "start"
    /\ impl \in {"engine", "gui"}
    /\ \E cols \in NameColumns : df = [columns |-> cols, rows |-> <<>>]
    /\ rules = <<>>
    /\ out = None
    /\ out2 = None
    /\ report = None
    /\ kept = <<>>
    /\ datasets = <<>>
    /\ paths = 0
    /\ err = ""
    /\ NoMerge
    /\ NoShell
    /\ issues = <<>>
    /\ returned = ""

\* df = standardize_column_names(df)
Standardize ==
    /\ pc = "start"
    /\ out' = standardize_column_names(impl, df)
    /\ pc' = "named"
    /\ UNCHANGED <<impl, df, rules, out2, report, kept, datasets, paths, err,
                   merge_vars, shell_vars, issues, returned>>

\* standardize_column_names applied to its own result
Restandardize ==
    /\ pc = "named"
    /\ out2' = standardize_column_names(impl, out)
    /\ pc' = "renamed"
    /\ UNCHANGED <<impl, df, rules, out, report, kept, datasets, paths, err,
                   merge_vars, shell_vars, issues, returned>>

NextNames == Standardize \/ Restandardize

SpecNames == InitNames /\ [][NextNames]_vars

\* ---------------------------------------------------------- the type coercer

S_1 == Str(<<"1">>)
S_2 == Str(<<"2">>)

CoerceCells == {S_1, S_2, S_10, S_empty, S_x, S_sp_X, NaN}

InitCoerce ==
    /\ pc = "start"
    /\ impl = "engine"
    /\ \E n \in 0..MaxRows : \E cs \in [1..n -> CoerceCells] :
          df = [columns |-> <<L_amt>>,
                rows |-> [i \in 1..n |-> [idx |-> i - 1, cells |-> <<cs[i]>>]]]
    /\ \E target \in {"numeric", "text"} : rules = [type |-> target]
    /\ out = None
    /\ out2 = None
    /\ report = None
    /\ kept = <<>>
    /\ datasets = <<>>
    /\ paths = 0
    /\ err = ""
    /\ NoMerge
    /\ NoShell
    /\ issues = <<>>
    /\ returned = ""

\* df[col] = enforce_type(df[col], target)
EnforceType ==
    /\ pc = "start"
    /\ out' = SetColumn(df, 1, enforce_type(Column(df, 1), rules.type))
    /\ pc' = "coerced"
    /\ UNCHANGED <<impl, df, rules, out2, report, kept, datasets, paths, err,
                   merge_vars, shell_vars, issues, returned>>

NextCoerce == EnforceType

SpecCoerce == InitCoerce /\ [][NextCoerce]_vars

\* --------------------------------------------------------- append consolidation

\* the position of label c in a list of unique labels, 0 when absent
PositionOf(cols, c) ==
    IF \E k \in DOMAIN cols : cols[k] = c
    THEN CHOOSE k \in DOMAIN cols : cols[k] = c
    ELSE 0

HasDuplicateLabels(cols) ==
    \E i \in DOMAIN cols : \E k \in DOMAIN cols : i # k /\ cols[i] = cols[k]

\* the labels of cols that are not in acc, appended to acc in order
RECURSIVE AddLabels(_, _)
AddLabels(acc, cols) ==
    IF cols = <<>> THEN acc
    ELSE AddLabels(IF PositionOf(acc, Head(cols)) = 0 THEN Append(acc, Head(cols))
                   ELSE acc,
                   Tail(cols))

\* pandas union_indexes(sort=False): the frames' own labels when all frames
\* carry the same labels, else the distinct labels in order of first appearance
RECURSIVE UnionLabels(_, _)
UnionLabels(acc, dfs) ==
    IF dfs = <<>> THEN acc ELSE UnionLabels(AddLabels(acc, Head(dfs).columns), Tail(dfs))

CombinedLabels(dfs) ==
    IF \A i \in DOMAIN dfs : dfs[i].columns = dfs[1].columns
    THEN dfs[1].columns
    ELSE UnionLabels(<<>>, dfs)

\* the rows of frame d reindexed to the combined labels
Reindexed(d, combined) ==
    IF d.columns = combined THEN d.rows
    ELSE [i \in DOMAIN d.rows |->
             [d.rows[i] EXCEPT !.cells =
                 [k \in DOMAIN combined |->
                     IF PositionOf(d.columns, combined[k]) = 0 THEN NaN
                     ELSE d.rows[i].cells[PositionOf(d.columns, combined[k])]]]]

RECURSIVE ConcatRows(_, _)
ConcatRows(dfs, combined) ==
    IF dfs = <<>> THEN <<>>
    ELSE Reindexed(Head(dfs), combined) \o ConcatRows(Tail(dfs), combined)

\* pd.concat(dfs, ignore_index=True): [exc, d].  No frames: ValueError.  A
\* frame with repeated labels cannot be reindexed to other labels:
\* InvalidIndexError.
ConcatTo(dfs, combined) ==
    IF \E i \in DOMAIN dfs :
          HasDuplicateLabels(dfs[i].columns) /\ dfs[i].columns # combined
    THEN [exc |-> "InvalidIndexError", d |-> None]
    ELSE [exc |-> "",
          d |-> ResetIndex([columns |-> combined, rows |-> ConcatRows(dfs, combined)])]

Concat(dfs) ==
    IF dfs = <<>> THEN [exc |-> "ValueError", d |-> None]
    ELSE ConcatTo(dfs, CombinedLabels(dfs))

\* data_engine.append_datasets(dfs)
append_datasets(dfs) == Concat(dfs)

\* [clean_dataset(df.copy()) for df in self.datasets.values()] in the GUI shell
GuiCleanedAll(dss) == [i \in DOMAIN dss |-> ResetIndex(gui_clean_dataset(dss[i]))]

L_a == <<"a">>
L_b == <<"b">>
L_c == <<"c">>

AppendColumnLists == {<<L_a, L_b>>, <<L_a, L_c>>, <<L_A_sp_B, L_a_sp_b>>}

AppendRowCells == {<<S_x, S_10>>, <<S_10, NaN>>, <<S_20, S_x>>, <<NaN, NaN>>}

\* raw datasets as a file reader yields them: two columns, up to MaxRows rows
RawDatasets ==
    {[columns |-> cols,
      rows |-> [i \in DOMAIN cs |-> [idx |-> i - 1, cells |-> cs[i]]]] :
        cols \in AppendColumnLists,
        cs \in UNION {[1..n -> AppendRowCells] : n \in 0..MaxRows}}

\* datasets cleaned by data_engine.clean_dataset without rules
EngineCleaned ==
    {ResetIndex(clean_dataset(d, <<>>).d) :
        d \in {r \in RawDatasets : clean_dataset(r, <<>>).exc = ""}}

CollectionsOf(pool) == {<<>>} \cup {<<d>> : d \in pool} \cup (pool \X pool)

InitAppend ==
    /\ pc = "start"
    /\ impl \in {"engine", "gui"}
    /\ datasets \in CollectionsOf(IF impl = "engine" THEN EngineCleaned
                                  ELSE RawDatasets)
    /\ paths \in {0, Len(datasets)}
    /\ df = None
    /\ rules = <<>>
    /\ out = None
    /\ out2 = None
    /\ report = None
    /\ kept = <<>>
    /\ err = ""
    /\ NoMerge
    /\ NoShell
    /\ issues = <<>>
    /\ returned = ""

\* data_engine.append_datasets(dfs) on a list of cleaned datasets
AppendDatasets ==
    /\ pc = "start"
    /\ impl = "engine"
    /\ \E res \in {append_datasets(datasets)} :
           /\ out' = res.d
           /\ err' = res.exc
    /\ pc' = "appended"
    /\ UNCHANGED <<impl, df, rules, out2, report, kept, datasets, paths,
                   merge_vars, shell_vars, issues, returned>>

\* SmartDataAnalyser.export_append (the second definition, which the class
\* keeps): out is the frame written to append_export.csv, err the exception
\* the handler reports in a message box
ExportAppend ==
    /\ pc = "start"
    /\ impl = "gui"
    /\ IF paths = 0
       THEN out' = None /\ err' = "Exception"
       ELSE \E res \in {Concat(GuiCleanedAll(datasets))} :
                /\ out' = res.d
                /\ err' = res.exc
    /\ pc' = "appended"
    /\ UNCHANGED <<impl, df, rules, out2, report, kept, datasets, paths,
                   merge_vars, shell_vars, issues, returned>>

NextAppend == AppendDatasets \/ ExportAppend

SpecAppend == InitAppend /\ [][NextAppend]_vars

\* ------------------------------------------------------------ merge export

\* key_col.strip().lower().replace(" ", "_") in perform_merge
MergeKeyName(k) == Replace(LowerStr(Strip(k)), "sp", "us")

\* the suffixes pd.merge gives to the non-key labels both frames carry
SuffixX == <<"us", "x">>
SuffixY == <<"us", "y">>

\* the number of columns of a frame that carry the label
LabelCount(cols, c) == Cardinality({k \in DOMAIN cols : cols[k] = c})

\* the labels of one side of pd.merge: the key kept, a label the other side
\* carries too suffixed
SideLabels(cols, other, key, suffix) ==
    [k \in DOMAIN cols |->
        IF cols[k] # key /\ PositionOf(other, cols[k]) # 0
        THEN cols[k] \o suffix ELSE cols[k]]

\* the positions of the right frame's columns that are not the key
NonKey(cols, key) ==
    SelectSeq([k \in DOMAIN cols |-> k], LAMBDA k : cols[k] # key)

\* the cells of right row r without the key, or missing markers when r = 0
RightPart(right, r, key) ==
    [k \in DOMAIN NonKey(right.columns, key) |->
        IF r = 0 THEN NaN ELSE right.rows[r].cells[NonKey(right.columns, key)[k]]]

\* the cells of left row l, or for l = 0 missing markers and the key of right
\* row r
LeftPart(left, l, right, r, key) ==
    [k \in DOMAIN left.columns |->
        IF l # 0 THEN left.rows[l].cells[k]
        ELSE IF left.columns[k] = key
             THEN right.rows[r].cells[PositionOf(right.columns, key)]
             ELSE NaN]

KeyOf(d, i, key) == d.rows[i].cells[PositionOf(d.columns, key)]

\* the rows of b whose key equals the key of row i of a, in the order of b
Matches(a, i, b, key) ==
    SelectSeq([r \in DOMAIN b.rows |-> r],
              LAMBDA r : KeyOf(b, r, key) = KeyOf(a, i, key))

\* the pairs <<left row, right row>> of how="inner" and how="left": the left
\* rows in order, each with its matching right rows in order (0: no match)
RECURSIVE LeftPairs(_, _, _, _, _)
LeftPairs(left, right, key, keepUnmatched, l) ==
    IF l > Len(left.rows) THEN <<>>
    ELSE (IF Matches(left, l, right, key) = <<>>
          THEN (IF keepUnmatched THEN <<<<l, 0>>>> ELSE <<>>)
          ELSE [m \in DOMAIN Matches(left, l, right, key) |->
                   <<l, Matches(left, l, right, key)[m]>>])
         \o LeftPairs(left, right, key, keepUnmatched, l + 1)

\* the pairs of how="right": the right rows in order
RECURSIVE RightPairs(_, _, _, _)
RightPairs(left, right, key, r) ==
    IF r > Len(right.rows) THEN <<>>
    ELSE (IF Matches(right, r, left, key) = <<>> THEN <<<<0, r>>>>
          ELSE [m \in DOMAIN Matches(right, r, left, key) |->
                   <<Matches(right, r, left, key)[m], r>>])
         \o RightPairs(left, right, key, r + 1)

JoinPairs(left, right, how, key) ==
    IF how = "right" THEN RightPairs(left, right, key, 1)
    ELSE LeftPairs(left, right, key, how = "left", 1)

\* the frame pd.merge builds from the row pairs
Joined(left, right, key, pairs) ==
    [columns |-> SideLabels(left.columns, right.columns, key, SuffixX)
                 \o SideLabels([k \in DOMAIN NonKey(right.columns, key) |->
                                   right.columns[NonKey(right.columns, key)[k]]],
                               left.columns, key, SuffixY),
     rows |-> [i \in DOMAIN pairs |->
                  [idx |-> i - 1,
                   cells |-> LeftPart(left, pairs[i][1], right, pairs[i][2], key)
                             \o RightPart(right, pairs[i][2], key)]]]

\* the dtype class of the key column: "object" for text, "number" otherwise
KeyDtype(d, key) ==
    IF IsObjectDtype(Column(d, PositionOf(d.columns, key)))
    THEN "object" ELSE "number"

\* pd.merge(left, right, how=how, on=key), for how in inner, left, right:
\* [exc, d].  A key label that a frame carries twice, and a text key against a
\* numeric key, raise ValueError.  kind is the dtype class of the left key,
\* which a join keeps also when it keeps no row.
Merge(left, kind, right, how, key) ==
    IF LabelCount(left.columns, key) # 1 \/ LabelCount(right.columns, key) # 1
    THEN [exc |-> "ValueError", d |-> None]
    ELSE IF KeyDtype(right, key) # kind
    THEN [exc |-> "ValueError", d |-> None]
    ELSE [exc |-> "", d |-> Joined(left, right, key,
                                   JoinPairs(left, right, how, key))]

\* One turn of "for df in self.datasets.values()" in perform_merge, on the
\* cleaned copy of the dataset.
\* st = [exc, first (merged_df is None), d (merged_df), kind, columns]
MergeTurn(st, cleaned, how, key) ==
    IF PositionOf(cleaned.columns, key) = 0
    THEN [st EXCEPT !.exc = "Exception", !.columns = cleaned.columns]
    ELSE IF st.first
    THEN [st EXCEPT !.first = FALSE, !.d = cleaned, !.kind = KeyDtype(cleaned, key)]
    ELSE LET m == Merge(st.d, st.kind, cleaned, how, key)
         IN  [st EXCEPT !.exc = m.exc, !.d = m.d]

RECURSIVE MergeLoop(_, _, _, _, _)
MergeLoop(st, dss, i, how, key) ==
    IF st.exc # "" \/ i > Len(dss) THEN st
    ELSE MergeLoop(MergeTurn(st, ResetIndex(gui_clean_dataset(dss[i])), how, key),
                   dss, i + 1, how, key)

\* an empty pd.DataFrame()
EmptyFrame == [columns |-> <<>>, rows |-> <<>>]

\* the body of the try block of perform_merge up to to_csv:
\* [exc, d (the frame written), columns (of the dataset the key test failed on)]
perform_merge(npaths, dss, how, key) ==
    IF npaths = 0
    THEN [exc |-> "IndexError", first |-> TRUE, d |-> None, kind |-> "",
          columns |-> <<>>]
    ELSE MergeLoop([exc |-> "", first |-> TRUE, d |-> EmptyFrame, kind |-> "",
                    columns |-> <<>>],
                   dss, 1, how, MergeKeyName(key))

\* messagebox.showinfo / messagebox.showerror("Merge Failed", str(e)): key is
\* the set of key texts the message quotes and columns the set of column
\* lists it enumerates.  The text of the Exception perform_merge raises quotes
\* the key as given and lists the columns of the dataset; the texts of
\* IndexError and of pandas' ValueError do neither.
MergeMessage(res, key) ==
    IF res.exc = ""
    THEN [box |-> "showinfo", title |-> "Export Successful",
          key |-> {}, columns |-> {}]
    ELSE IF res.exc = "Exception"
    THEN [box |-> "showerror", title |-> "Merge Failed",
          key |-> {key}, columns |-> {res.columns}]
    ELSE [box |-> "showerror", title |-> "Merge Failed",
          key |-> {}, columns |-> {}]

\* the datasets a merge export may hold
MaxDatasets == 3

L_X == <<"X">>

MergeColumnLists ==
    {<<L_X, L_a>>, <<L_X, L_b>>, <<L_a, L_b>>, <<L_order, L_a>>,
     <<L_A_sp_B, L_a_sp_b>>}

\* rows as a file reader yields them: a numeric key column holds numbers, a
\* text key column text
MergeRowLists ==
    {<<<<Num(1, 1), S_x>>>>,
     <<<<Num(1, 1), S_x>>, <<Num(2, 1), NaN>>>>,
     <<<<S_x, S_10>>>>}

MergeDatasets ==
    {[columns |-> cols,
      rows |-> [i \in DOMAIN cs |-> [idx |-> i - 1, cells |-> cs[i]]]] :
        cols \in MergeColumnLists, cs \in MergeRowLists}

\* the key labels the merge dialog offers (the raw labels of the datasets)
MergeKeys == {L_X, L_a, L_order, L_A_sp_B}

JoinTypes == {"inner", "left", "right"}

InitMerge ==
    /\ pc = "start"
    /\ impl = "gui"
    /\ datasets \in UNION {[1..n -> MergeDatasets] : n \in 0..MaxDatasets}
    /\ paths \in {0, Len(datasets)}
    /\ key_col \in MergeKeys
    /\ join_type \in JoinTypes
    /\ message = None
    /\ df = None
    /\ rules = <<>>
    /\ out = None
    /\ out2 = None
    /\ report = None
    /\ kept = <<>>
    /\ err = ""
    /\ NoShell
    /\ issues = <<>>
    /\ returned = ""

\* SmartDataAnalyser.perform_merge(join_type, key_col): out is the frame
\* written to merged_export.csv, err the exception the handler caught and
\* message the box it showed
PerformMerge ==
    /\ pc = "start"
    /\ \E res \in {perform_merge(paths, datasets, join_type, key_col)} :
           /\ out' = IF res.exc = "" THEN res.d ELSE None
           /\ err' = res.exc
           /\ message' = MergeMessage(res, key_col)
    /\ pc' = "merged"
    /\ UNCHANGED <<impl, df, rules, out2, report, kept, datasets, paths,
                   key_col, join_type, shell_vars, issues, returned>>

NextMerge == PerformMerge

SpecMerge == InitMerge /\ [][NextMerge]_vars

\* ------------------------------------------------------- safety validation

\* the null byte "\x00" is the character "nul"
NulByte == <<"nul">>

\* df[col].astype(str).str.contains("\x00", regex=False).any(): the text of a
\* number and of a missing value holds no null byte
ContainsNul(series) ==
    \E i \in DOMAIN series : IsStr(series[i]) /\ Contains(series[i].s, NulByte)

\* the issues one turn of "for col in df.columns" appends for the column at
\* position j
ColumnIssues(d, j) ==
    (IF IsObjectDtype(Column(d, j)) /\ ContainsNul(Column(d, j))
     THEN <<[issue |-> "Invalid character in column", col |-> d.columns[j]]>>
     ELSE <<>>)
    \o (IF NullCount(Column(d, j)) > 0
        THEN <<[issue |-> "Remaining NULLs in column", col |-> d.columns[j]]>>
        ELSE <<>>)

\* the loop of sql_safety_report from position j on: [exc, issues].  df[col]
\* of a repeated label is a DataFrame, which has no attribute dtype.
RECURSIVE SafetyLoop(_, _, _)
SafetyLoop(d, j, acc) ==
    IF j > Len(d.columns) THEN [exc |-> "", issues |-> acc]
    ELSE IF IsDuplicated(d, d.columns[j])
    THEN [exc |-> "AttributeError", issues |-> <<>>]
    ELSE SafetyLoop(d, j + 1, acc \o ColumnIssues(d, j))

\* data_engine.sql_safety_report(df)
sql_safety_report(d) == SafetyLoop(d, 1, <<>>)

S_nul == Str(<<"x", "nul">>)

SafetyColumnLists == {<<L_amt, L_name>>, <<L_A_sp_B, L_a_sp_b>>}

SafetyCells == {Num(1, 1), NaN, S_x, S_nul}

\* datasets as standardize_column_names leaves their labels: two columns and
\* up to MaxRows - 1 rows, or one column and up to MaxRows rows
SafetyDatasets ==
    {standardize_column_names("engine",
         [columns |-> cols,
          rows |-> [i \in DOMAIN cs |-> [idx |-> i - 1, cells |-> cs[i]]]]) :
        cols \in SafetyColumnLists,
        cs \in UNION {[1..n -> [1..2 -> SafetyCells]] : n \in 0..(MaxRows - 1)}}
    \cup
    {[columns |-> <<L_amt>>,
      rows |-> [i \in DOMAIN cs |-> [idx |-> i - 1, cells |-> <<cs[i]>>]]] :
        cs \in UNION {[1..n -> SafetyCells] : n \in 0..MaxRows}}

InitSafety ==
    /\ pc = "start"
    /\ impl = "engine"
    /\ df \in SafetyDatasets
    /\ rules = <<>>
    /\ out = None
    /\ out2 = None
    /\ report = None
    /\ kept = <<>>
    /\ datasets = <<>>
    /\ paths = 0
    /\ err = ""
    /\ NoMerge
    /\ NoShell
    /\ issues = <<>>
    /\ returned = ""

\* issues = sql_safety_report(df)
SqlSafetyReport ==
    /\ pc = "start"
    /\ \E res \in {sql_safety_report(df)} :
           /\ issues' = res.issues
           /\ err' = res.exc
    /\ pc' = "validated"
    /\ UNCHANGED <<impl, df, rules, out, out2, report, kept, datasets, paths,
                   merge_vars, shell_vars, returned>>

NextSafety == SqlSafetyReport

SpecSafety == InitSafety /\ [][NextSafety]_vars

\* ------------------------------------------------------------ the GUI shell

\* In the shell runs, datasets is the dict self.datasets: a function from the
\* names of the datasets to the datasets.  A name is the position of its file
\* in the directory, and paths the number of files selected, from the first.

\* the entries the history may hold
MaxHistory == 3

\* the files of the directory, as pd.read_csv yields them
F_sales ==
    [columns |-> <<L_A_sp_B, L_amt>>,
     rows |-> <<[idx |-> 0, cells |-> <<S_x, Num(10, 1)>>],
                [idx |-> 1, cells |-> <<S_x, Num(10, 1)>>],
                [idx |-> 2, cells |-> <<NaN, NaN>>]>>]

F_codes ==
    [columns |-> <<L_a>>,
     rows |-> <<[idx |-> 0, cells |-> <<S_x>>]>>]

Files == <<F_sales, F_codes>>

\* the history left as it is
PushedLabels_None(hist, label) == hist

\* push_history: self.history.append(label)
PushedLabels(hist, label) == Append(hist, label)

\* push_history: self.undo_stack.append(copy.deepcopy(self.current_df))
PushedSnapshot(stack, cur) == Append(stack, cur)

\* refresh_preview: the column to sort by is the last numeric column, or the
\* first column when none is numeric
SortColumn(d) ==
    IF \E j \in DOMAIN d.columns : ~IsObjectDtype(Column(d, j))
    THEN d.columns[SetMax({j \in DOMAIN d.columns : ~IsObjectDtype(Column(d, j))})]
    ELSE d.columns[1]

\* the exception refresh_preview raises, "" when none: df.columns[0] of a
\* frame without columns, sort_values by a label the frame carries twice
refresh_preview(preview) ==
    IF preview = None THEN ""
    ELSE IF preview.columns = <<>> THEN "IndexError"
    ELSE IF IsDuplicated(preview, SortColumn(preview)) THEN "ValueError"
    ELSE ""

\* getattr(df[value_col], func)() on the coerced column: [exc, d]
Aggregate(series, func) ==
    CASE func = "count" -> [exc |-> "", v |-> Num(Len(Present(series)), 1)]
      [] func = "sum"   -> [exc |-> "", v |-> SumCells(Present(series))]
      [] func = "mean"  -> [exc |-> "", v |-> MeanOf(Present(series)).v]
      [] OTHER          -> [exc |-> "AttributeError", v |-> NaN]

\* pd.DataFrame({value_col: [result]})
OneCell(value_col, res) ==
    [exc |-> res.exc,
     d |-> [columns |-> <<value_col>>,
            rows |-> <<[idx |-> 0, cells |-> <<res.v>>]>>]]

\* the body of run_aggregation up to self.aggregated_df, for no selection
\* in the Group By list: [exc, d]
run_aggregation(cur, value_col, func) ==
    IF cur = None THEN [exc |-> "AttributeError", d |-> None]
    ELSE IF value_col # <<>> /\ func # ""
    THEN (IF PositionOf(cur.columns, value_col) = 0
          THEN [exc |-> "KeyError", d |-> None]
          ELSE IF IsDuplicated(cur, value_col)
          THEN [exc |-> "TypeError", d |-> None]
          ELSE OneCell(value_col,
                       Aggregate(ToNumericCoerce(
                                     Column(cur, PositionOf(cur.columns, value_col))),
                                 func)))
    ELSE IF func \in {"sum", "mean", "min", "max"}
    THEN [exc |-> "KeyError", d |-> None]
    ELSE [exc |-> "ValueError", d |-> None]

\* the entries of the Aggregation box the runs draw: a function, or none
AggFuncs == {"sum", ""}

ValueColumns(cur) ==
    {<<>>} \cup (IF cur = None THEN {}
                 ELSE {cur.columns[j] : j \in DOMAIN cur.columns})

InitShell ==
    /\ pc = "start"
    /\ impl = "gui"
    /\ datasets = <<>>
    /\ paths = 0
    /\ NoShell
    /\ df = None
    /\ rules = <<>>
    /\ out = None
    /\ out2 = None
    /\ report = None
    /\ kept = <<>>
    /\ err = ""
    /\ NoMerge
    /\ issues = <<>>
    /\ returned = ""

\* SmartDataAnalyser.browse_files: the dialog returns no file (cancelled) or
\* the files of the directory
BrowseFiles ==
    /\ Len(history) < MaxHistory
    /\ \E n \in {0, Len(Files)} :
           /\ paths' = n
           /\ history' = IF n = 0 THEN history ELSE PushedLabels(history, "Browse")
           /\ undo_stack' = IF n = 0 THEN undo_stack
                            ELSE PushedSnapshot(undo_stack, current_df)
    /\ pc' = "browse"
    /\ err' = ""
    /\ UNCHANGED <<impl, df, rules, out, out2, report, kept, datasets,
                   merge_vars, current_df, preview_df, aggregated_df,
                   current_name, issues, returned>>

\* SmartDataAnalyser.read_files, with the switch_dataset and push_history it
\* calls; an exception of refresh_preview ends it before the push
ReadFiles ==
    /\ Len(history) < MaxHistory
    /\ datasets' = [i \in 1..paths |-> Files[i]]
    /\ IF paths = 0
       THEN /\ err' = ""
            /\ UNCHANGED shell_vars
       ELSE /\ current_name' = 1
            /\ current_df' = Files[1]
            /\ preview_df' = Files[1]
            /\ aggregated_df' = None
            /\ err' = refresh_preview(Files[1])
            /\ history' = IF refresh_preview(Files[1]) # "" THEN history
                          ELSE PushedLabels(history, "Read")
            /\ undo_stack' = IF refresh_preview(Files[1]) # "" THEN undo_stack
                             ELSE PushedSnapshot(undo_stack, Files[1])
    /\ pc' = "read"
    /\ UNCHANGED <<impl, df, rules, out, out2, report, kept, paths,
                   merge_vars, issues, returned>>

\* SmartDataAnalyser.switch_dataset on a selection in the dataset box
SwitchDataset ==
    /\ \E name \in DOMAIN datasets :
           /\ current_name' = name
           /\ current_df' = datasets[name]
           /\ preview_df' = datasets[name]
           /\ err' = refresh_preview(datasets[name])
    /\ aggregated_df' = None
    /\ pc' = "switch"
    /\ UNCHANGED <<impl, df, rules, out, out2, report, kept, datasets, paths,
                   merge_vars, history, undo_stack, issues, returned>>

\* SmartDataAnalyser.clean_current
CleanCurrent ==
    /\ Len(history) < MaxHistory
    /\ IF current_df = None
       THEN /\ err' = ""
            /\ UNCHANGED <<datasets, shell_vars>>
       ELSE /\ history' = PushedLabels(history, "Clean")
            /\ undo_stack' = PushedSnapshot(undo_stack, current_df)
            /\ \E cleaned \in {ResetIndex(gui_clean_dataset(current_df))} :
                   /\ current_df' = cleaned
                   /\ preview_df' = cleaned
                   /\ datasets' = IF current_name = 0 THEN datasets
                                  ELSE (current_name :> cleaned) @@ datasets
                   /\ err' = refresh_preview(cleaned)
            /\ aggregated_df' = None
            /\ UNCHANGED current_name
    /\ pc' = "clean"
    /\ UNCHANGED <<impl, df, rules, out, out2, report, kept, paths,
                   merge_vars, issues, returned>>

\* SmartDataAnalyser.run_aggregation, for the value column and the function
\* the user entered
RunAggregation ==
    /\ Len(history) < MaxHistory
    /\ \E value_col \in ValueColumns(current_df) : \E func \in AggFuncs :
           \E res \in {run_aggregation(current_df, value_col, func)} :
               /\ err' = res.exc
               /\ aggregated_df' = IF res.exc # "" THEN aggregated_df ELSE res.d
               /\ preview_df' = IF res.exc # "" THEN preview_df ELSE res.d
               /\ history' = IF res.exc # "" THEN history
                             ELSE PushedLabels(history, "Aggregation")
               /\ undo_stack' = IF res.exc # "" THEN undo_stack
                                ELSE PushedSnapshot(undo_stack, current_df)
    /\ pc' = "aggregate"
    /\ UNCHANGED <<impl, df, rules, out, out2, report, kept, datasets, paths,
                   merge_vars, current_df, current_name, issues, returned>>

\* SmartDataAnalyser.undo_last
UndoLast ==
    /\ IF undo_stack = <<>>
       THEN /\ err' = ""
            /\ UNCHANGED shell_vars
       ELSE /\ undo_stack' = SubSeq(undo_stack, 1, Len(undo_stack) - 1)
            /\ history' = SubSeq(history, 1, Len(history) - 1)
            /\ IF Len(undo_stack) = 1
               THEN /\ err' = ""
                    /\ UNCHANGED <<current_df, preview_df, aggregated_df>>
               ELSE /\ current_df' = undo_stack[Len(undo_stack) - 1]
                    /\ IF undo_stack[Len(undo_stack) - 1] = None
                       THEN \* None has no attribute copy
                            /\ err' = "AttributeError"
                            /\ UNCHANGED <<preview_df, aggregated_df>>
                       ELSE /\ preview_df' = undo_stack[Len(undo_stack) - 1]
                            /\ aggregated_df' = None
                            /\ err' = refresh_preview(undo_stack[Len(undo_stack) - 1])
            /\ UNCHANGED current_name
    /\ pc' = "undo"
    /\ UNCHANGED <<impl, df, rules, out, out2, report, kept, datasets, paths,
                   merge_vars, issues, returned>>

\* SmartDataAnalyser.clear_data
ClearData ==
    /\ datasets' = <<>>
    /\ paths' = 0
    /\ current_df' = None
    /\ preview_df' = None
    /\ aggregated_df' = None
    /\ current_name' = 0
    /\ history' = <<>>
    /\ undo_stack' = <<>>
    /\ err' = ""
    /\ pc' = "clear"
    /\ UNCHANGED <<impl, df, rules, out, out2, report, kept,
                   merge_vars, issues, returned>>

NextShell ==
    \/ BrowseFiles
    \/ ReadFiles
    \/ SwitchDataset
    \/ CleanCurrent
    \/ RunAggregation
    \/ UndoLast
    \/ ClearData

SpecShell == InitShell /\ [][NextShell]_vars

\* ------------------------------------------------------------------ claims

Named == pc \in {"named", "renamed"}

\* C1: after standardize_column_names the column names of a dataset are
\* pairwise distinct.
C1_NamesDistinct ==
    Named =>
        \A i \in DOMAIN out.columns : \A k \in DOMAIN out.columns :
            i # k => out.columns[i] # out.columns[k]

\* C2: standardize_column_names is idempotent: normalizing the normalized
\* names yields the same names, reserved words with their _col suffix included.
C2_Idempotent == pc = "renamed" => out2.columns = out.columns

C2_Witness ==
    /\ pc = "renamed"
    /\ df.columns = <<L_order>>
    /\ out.columns = <<L_order_col>>
    /\ out2.columns = <<L_order_col>>

\* the normalized form of a trimmed label as the claim words it: lower-cased,
\* separators (space, hyphen) replaced by "_", other non-word characters dropped
RECURSIVE C3_Form(_)
C3_Form(s) ==
    IF s = <<>> THEN <<>>
    ELSE IF Head(s) \in {"sp", "hy"} THEN <<"us">> \o C3_Form(Tail(s))
    ELSE IF IsWordChar(Head(s)) THEN <<LowerChar(Head(s))>> \o C3_Form(Tail(s))
    ELSE C3_Form(Tail(s))

\* C3: a label whose normalized form is a reserved keyword gets that keyword
\* with the suffix _col, any other label its normalized form without a suffix
\* (data_engine), and no output identifier is a reserved keyword.
C3_ReservedSuffix ==
    Named =>
        \A i \in DOMAIN out.columns :
            /\ out.columns[i] \notin SQL_RESERVED
            /\ impl = "engine" =>
                  out.columns[i] =
                      IF C3_Form(Strip(df.columns[i])) \in SQL_RESERVED
                      THEN C3_Form(Strip(df.columns[i])) \o ColSuffix
                      ELSE C3_Form(Strip(df.columns[i]))

C3_Witness ==
    /\ pc = "named"
    /\ impl = "engine"
    /\ df.columns = <<L_order, L_Order_Date>>
    /\ out.columns = <<L_order_col, <<"o", "r", "d", "e", "r", "us", "d", "a", "t", "e">>>>

\* the identifier the claim describes for a trimmed label: lower-cased, every
\* whitespace character and hyphen replaced by "_", only [A-Za-z0-9_] kept
RECURSIVE C4_Form(_)
C4_Form(s) ==
    IF s = <<>> THEN <<>>
    ELSE IF IsSpace(Head(s)) \/ Head(s) = "hy" THEN <<"us">> \o C4_Form(Tail(s))
    ELSE IF IsAsciiWordChar(Head(s)) THEN <<LowerChar(Head(s))>> \o C4_Form(Tail(s))
    ELSE C4_Form(Tail(s))

\* C4: every identifier holds only characters of [A-Za-z0-9_], and every
\* internal whitespace character and hyphen of the trimmed label became an
\* underscore instead of being dropped.
C4_AsciiIdentifiers ==
    Named =>
        \A i \in DOMAIN out.columns :
            /\ \A k \in DOMAIN out.columns[i] : IsAsciiWordChar(out.columns[i][k])
            /\ out.columns[i] \in
                  {C4_Form(Strip(df.columns[i])),
                   C4_Form(Strip(df.columns[i])) \o ColSuffix}

Returned == pc = "cleaned" /\ err = ""

\* C5: the dataset clean_dataset returns has no two identical rows, and the
\* report's rows_after (the returned row count) is at most rows_before (the
\* input row count).
C5_NoDuplicateRows ==
    Returned =>
        /\ \A i \in DOMAIN out.rows : \A k \in DOMAIN out.rows :
               i # k => out.rows[i].cells # out.rows[k].cells
        /\ report.rows_before = Len(df.rows)
        /\ report.rows_after = Len(out.rows)
        /\ report.rows_after <= report.rows_before

\* rows that differ in the input and coincide once cleaned were removed
C5_Witness ==
    /\ Returned
    /\ report.duplicates_removed > 0
    /\ Len(out.rows) > 0
    /\ \A i \in DOMAIN df.rows : \A k \in DOMAIN df.rows :
           i # k => df.rows[i].cells # df.rows[k].cells

\* the input cell of column j in the input row that became returned row i
InputCell(i, j) == df.rows[kept[i] + 1].cells[j]

\* the number an input cell parses to, for the cells the inputs draw
C6_Parses(c) == c \in {S_10, S_20}
C6_Number(c) == IF c = S_10 THEN 10 ELSE 20

RECURSIVE C6_Sum(_, _)
C6_Sum(j, n) ==
    IF n = 0 THEN 0
    ELSE C6_Sum(j, n - 1)
             + (IF C6_Parses(df.rows[n].cells[j])
                THEN C6_Number(df.rows[n].cells[j]) ELSE 0)

C6_Count(j) ==
    Cardinality({n \in DOMAIN df.rows : C6_Parses(df.rows[n].cells[j])})

C6_Rule(r) ==
    /\ Get(r, "type", "") = "numeric"
    /\ Get(r, "null_strategy", "") = "mean"
    /\ ~Get(r, "skip_cleaning", FALSE)

\* C6: in a column with rule {type: numeric, null_strategy: mean} of the
\* dataset clean_dataset returns, a cell that parsed is its number and a cell
\* that did not parse is the mean of the parsed cells (missing when no cell
\* parsed); no cell is text, the column is reported as converted and the
\* unparsed cells of the rows that are not entirely missing are the nulls fixed.
C6_CoerceThenMean ==
    Returned =>
        \A j \in DOMAIN out.columns :
            (out.columns[j] \in DOMAIN rules /\ C6_Rule(rules[out.columns[j]])) =>
                /\ \A i \in DOMAIN out.rows :
                       out.rows[i].cells[j] =
                           IF C6_Parses(InputCell(i, j))
                           THEN Num(C6_Number(InputCell(i, j)), 1)
                           ELSE IF C6_Count(j) = 0 THEN NaN
                           ELSE Num(C6_Sum(j, Len(df.rows)), C6_Count(j))
                /\ \E k \in DOMAIN report.types_converted :
                       report.types_converted[k] = out.columns[j]
                /\ LET unparsed ==
                           {n \in DOMAIN df.rows :
                               /\ ~C6_Parses(df.rows[n].cells[j])
                               /\ \E m \in DOMAIN df.rows[n].cells :
                                      ~IsNa(df.rows[n].cells[m])}
                   IN  IF unparsed = {}
                       THEN out.columns[j] \notin DOMAIN report.nulls_fixed
                       ELSE /\ out.columns[j] \in DOMAIN report.nulls_fixed
                            /\ report.nulls_fixed[out.columns[j]]
                                   = Cardinality(unparsed)

C6_Witness ==
    /\ Returned
    /\ df.columns = <<L_amt>>
    /\ Column(df, 1) = <<S_10, S_20, S_empty>>
    /\ L_amt \in DOMAIN rules
    /\ C6_Rule(rules[L_amt])
    /\ Column(out, 1) = <<Num(10, 1), Num(20, 1), Num(15, 1)>>

\* C7: a column without a rule entry that has missing values (in rows that
\* are not entirely missing) has each of them filled with "Unknown" and is
\* recorded in report.nulls_fixed.
C7_DefaultFill ==
    Returned =>
        \A j \in DOMAIN out.columns :
            out.columns[j] \notin DOMAIN rules =>
                \A i \in DOMAIN out.rows :
                    IsNa(InputCell(i, j)) =>
                        /\ out.rows[i].cells[j] = Unknown
                        /\ out.columns[j] \in DOMAIN report.nulls_fixed

C8_Parses(c) == c \in {S_1, S_2, S_10}
C8_Number(c) == IF c = S_1 THEN 1 ELSE IF c = S_2 THEN 2 ELSE 10

\* C8: enforce_type with target numeric raises nothing and returns a column
\* of the same length and order in which a cell that parses is its number and
\* any other cell is missing.
C8_NumericCoercion ==
    (pc = "coerced" /\ rules.type = "numeric") =>
        /\ err = ""
        /\ Len(out.rows) = Len(df.rows)
        /\ \A i \in DOMAIN out.rows :
               /\ out.rows[i].idx = df.rows[i].idx
               /\ out.rows[i].cells[1] =
                      IF C8_Parses(df.rows[i].cells[1])
                      THEN Num(C8_Number(df.rows[i].cells[1]), 1)
                      ELSE NaN

C8_Witness ==
    /\ pc = "coerced"
    /\ rules.type = "numeric"
    /\ Column(df, 1) = <<S_1, S_2, S_x>>
    /\ Column(out, 1) = <<Num(1, 1), Num(2, 1), NaN>>

\* C9: a column whose rule sets skip_cleaning keeps, in every returned row,
\* the cell of the input row, and is named neither in report.types_converted
\* nor in report.nulls_fixed, whatever else its rule holds.
C9_SkipLeavesColumn ==
    Returned =>
        \A j \in DOMAIN out.columns :
            (/\ out.columns[j] \in DOMAIN rules
             /\ Get(rules[out.columns[j]], "skip_cleaning", FALSE)) =>
                /\ \A i \in DOMAIN out.rows : out.rows[i].cells[j] = InputCell(i, j)
                /\ \A k \in DOMAIN report.types_converted :
                       report.types_converted[k] # out.columns[j]
                /\ out.columns[j] \notin DOMAIN report.nulls_fixed

\* a skipped column with a type and a null strategy keeps a text cell and a
\* missing cell while the column beside it is cleaned
C9_Witness ==
    /\ Returned
    /\ df.columns = <<L_amt, L_name>>
    /\ rules = (L_amt :> [skip_cleaning |-> TRUE, type |-> "numeric",
                          null_strategy |-> "mean"])
    /\ Column(df, 1) = <<S_10, NaN>>
    /\ Column(out, 1) = <<S_10, NaN>>
    /\ Column(out, 2) # Column(df, 2)

\* the cleaned datasets an append consolidates
C10_Inputs == IF impl = "engine" THEN datasets ELSE GuiCleanedAll(datasets)

RECURSIVE C10_RowsBefore(_)
C10_RowsBefore(n) ==
    IF n = 0 THEN 0 ELSE C10_RowsBefore(n - 1) + Len(C10_Inputs[n].rows)

C10_LabelSet(d) == {d.columns[k] : k \in DOMAIN d.columns}

MergeCleaned(i) == ResetIndex(gui_clean_dataset(datasets[i]))

\* dataset i has no column named by the key as perform_merge normalizes it
LacksKey(i) == PositionOf(MergeCleaned(i).columns, MergeKeyName(key_col)) = 0

\* C11: when the merge key is absent from a dataset of the collection,
\* perform_merge writes no merged output and shows an error that quotes the
\* key and lists the columns of a dataset that lacks it.
C11_MissingKeyReported ==
    (pc = "merged" /\ \E i \in DOMAIN datasets : LacksKey(i)) =>
        /\ err # ""
        /\ out = None
        /\ message.box = "showerror"
        /\ message.key = {key_col}
        /\ \E i \in DOMAIN datasets :
               LacksKey(i) /\ message.columns = {MergeCleaned(i).columns}

\* dataset i has a column whose raw label is the key the user names
HasRawKey(i) == PositionOf(datasets[i].columns, key_col) # 0

\* C12: the key perform_merge derives from a label is the name the name
\* normalizer gives a column of that label, so the dataset that has a column
\* with the raw label named as key is not reported as lacking the key.
C12_KeyNormalizedAsColumns ==
    /\ MergeKeyName(key_col) = GuiName(key_col)
    /\ MergeKeyName(key_col) = EngineName(key_col)
    /\ pc = "merged" =>
           \A i \in DOMAIN datasets :
               HasRawKey(i) => message.columns # {MergeCleaned(i).columns}

\* the number of issues of the list that carry this text and name this column
C13_Count(text, col) ==
    Cardinality({k \in DOMAIN issues : issues[k] = [issue |-> text, col |-> col]})

\* C13: sql_safety_report does not raise and returns one issue naming the
\* column for each textual column holding a null byte, one issue naming the
\* column for each column holding a missing value, and nothing else.
C13_OneIssuePerCondition ==
    pc = "validated" =>
        /\ err = ""
        /\ \A j \in DOMAIN df.columns :
               /\ C13_Count("Invalid character in column", df.columns[j])
                      = IF \E i \in DOMAIN df.rows :
                               /\ IsStr(df.rows[i].cells[j])
                               /\ \E k \in DOMAIN df.rows[i].cells[j].s :
                                      df.rows[i].cells[j].s[k] = "nul"
                        THEN 1 ELSE 0
               /\ C13_Count("Remaining NULLs in column", df.columns[j])
                      = IF \E i \in DOMAIN df.rows : IsNa(df.rows[i].cells[j])
                        THEN 1 ELSE 0
        /\ \A k \in DOMAIN issues :
               \E j \in DOMAIN df.columns : issues[k].col = df.columns[j]

\* C14: a call of clean_dataset, whether it returns or raises, leaves the
\* caller's dataset with the labels, rows, row order and cells it had, and
\* the dataset it returns is not the caller's object.
C14_InputNotMutated ==
    [][pc' = "cleaned" => (df' = df /\ returned' # "caller")]_vars

\* a call that renamed a column and dropped a row in the dataset it returned
C14_Witness ==
    /\ pc = "cleaned"
    /\ err = ""
    /\ returned # ""
    /\ out.columns # df.columns
    /\ Len(out.rows) < Len(df.rows)

\* C15: the history list and the undo stack have the same length in every
\* state of the shell; an undo takes one entry from each, a clear empties
\* both, and an undo on an empty stack changes nothing of the shell's data.
C15_HistoryMatchesStack ==
    /\ [](Len(history) = Len(undo_stack))
    /\ [][/\ (pc' = "undo" /\ undo_stack # <<>>) =>
                 /\ Len(undo_stack') = Len(undo_stack) - 1
                 /\ Len(history') = Len(history) - 1
          /\ (pc' = "undo" /\ undo_stack = <<>>) =>
                 UNCHANGED <<datasets, paths, shell_vars>>
          /\ pc' = "clear" => (history' = <<>> /\ undo_stack' = <<>>)
          /\ Len(undo_stack') > Len(undo_stack) =>
                 /\ Len(undo_stack') = Len(undo_stack) + 1
                 /\ Len(history') = Len(history) + 1]_vars

\* an undo that took the third entry off the history of a loaded dataset
C15_Witness ==
    /\ pc = "undo"
    /\ Len(history) = 2
    /\ Len(undo_stack) = 2
    /\ aggregated_df = None
    /\ current_df # None

\* C16: an undo right after a clean_current that cleaned a loaded dataset
\* puts back the dataset as it was before the clean (the snapshot the clean
\* pushed); no undo raises, and none unsets a loaded current_df.
C16_UndoRestoresClean ==
    [][pc' = "undo" =>
          /\ err' = ""
          /\ current_df # None => current_df' # None
          /\ (pc = "clean" /\ current_df # None) =>
                 current_df' = undo_stack[Len(undo_stack)]]_vars

====
